---- MODULE Spec2Model ----
(***************************************************************************)
(* The Todo aggregate (crates/todo/src/domain/todo), the application       *)
(* handlers (crates/todo/src/application) and the in-memory repository     *)
(* (crates/todo/src/infrastructure/repositories/todo).                     *)
(*                                                                         *)
(* Option<T> is a sequence of length 0 (None) or 1 (Some).  A description  *)
(* is a sequence of characters.  A Result is a record with a kind ("Ok",   *)
(* "Err" or "Panic"), the error, and the returned aggregate and events.    *)
(***************************************************************************)
EXTENDS Integers, Sequences, FiniteSets, TLC

\* ---------------------------------------------------------------- bounds
NumIds == 2
MaxDescLen == 1
MaxTime == 1
MaxTrail == 4
NumThreads == 2

Ids == 1..NumIds
Chars == {" ", "a"}
Descriptions == UNION {[1..n -> Chars] : n \in 0..MaxDescLen}

None == <<>>
Some(x) == <<x>>

\* ------------------------------------------------------------ TodoState
TodoState == {"Todo", "InProgress", "Done"}

\* Mutant: Done advances too.
can_advance_always(self) == self \in {"Todo", "InProgress", "Done"}

can_advance(self) == self \in {"Todo", "InProgress"}

can_retreat(self) == self \in {"InProgress", "Done"}

\* Mutant: every other state is a legal target.
can_transition_to_any_other(self, new_state) == self # new_state

can_transition_to(self, new_state) ==
    IF self = new_state THEN FALSE
    ELSE IF <<self, new_state>> \in {<<"Todo", "InProgress">>, <<"InProgress", "Done">>}
         THEN can_advance(self)
    ELSE IF <<self, new_state>> \in {<<"Done", "InProgress">>, <<"InProgress", "Todo">>}
         THEN can_retreat(self)
    ELSE FALSE

\* ------------------------------------------------------------ TodoError
TodoError == {"EmptyDescription", "InvalidStateTransition", "TodoNotFound"}

Ok(todo, events) == [kind |-> "Ok", err |-> "-", todo |-> todo, events |-> events]
Err(e) == [kind |-> "Err", err |-> e, todo |-> None, events |-> <<>>]
Panic == [kind |-> "Panic", err |-> "-", todo |-> None, events |-> <<>>]

\* The result of a call that returns a bool.
Bool(b) == [kind |-> "Bool", err |-> "-", todo |-> None, events |-> <<>>,
            value |-> b]

\* ------------------------------------------------------------ TodoEvent
TodoCreated(id, description, created_at) ==
    [type |-> "TodoCreated", id |-> id, description |-> description,
     created_at |-> created_at]

TodoStateChanged(id, from_state, to_state, changed_at) ==
    [type |-> "TodoStateChanged", id |-> id, from_state |-> from_state,
     to_state |-> to_state, changed_at |-> changed_at]

\* ----------------------------------------------------------------- Todo
\* str::trim: strips leading and trailing whitespace.
RECURSIVE trim_start(_)
trim_start(s) ==
    IF s # <<>> /\ Head(s) = " " THEN trim_start(Tail(s)) ELSE s

RECURSIVE trim_end(_)
trim_end(s) ==
    IF s # <<>> /\ s[Len(s)] = " " THEN trim_end(SubSeq(s, 1, Len(s) - 1)) ELSE s

trim(s) == trim_end(trim_start(s))

\* Mutant: the event's created_at comes from a second, later read of the clock.
Todo_new_second_clock_read(description, id, now) ==
    IF trim(description) = <<>> THEN Err("EmptyDescription")
    ELSE Ok(Some([id |-> id, created_at |-> now, description |-> description,
                  state |-> "Todo", dirty |-> Some(FALSE)]),
            <<TodoCreated(id, description, now + 1)>>)

\* Mutant: a new aggregate is marked dirty.
Todo_new_dirty(description, id, now) ==
    IF trim(description) = <<>> THEN Err("EmptyDescription")
    ELSE Ok(Some([id |-> id, created_at |-> now, description |-> description,
                  state |-> "Todo", dirty |-> Some(TRUE)]),
            <<TodoCreated(id, description, now)>>)

\* Mutant: the description is tested with is_empty(), without trim().
Todo_new_untrimmed(description, id, now) ==
    IF description = <<>> THEN Err("EmptyDescription")
    ELSE Ok(Some([id |-> id, created_at |-> now, description |-> description,
                  state |-> "Todo", dirty |-> Some(FALSE)]),
            <<TodoCreated(id, description, now)>>)

\* Todo::new; id is the value drawn by Uuid::new_v4, now the value of Utc::now.
Todo_new(description, id, now) ==
    IF trim(description) = <<>> THEN Err("EmptyDescription")
    ELSE Ok(Some([id |-> id, created_at |-> now, description |-> description,
                  state |-> "Todo", dirty |-> Some(FALSE)]),
            <<TodoCreated(id, description, now)>>)

\* Mutant: the same-state test is missing.
is_new_state_allowed_any(self, new_state) == TRUE

is_new_state_allowed(self, new_state) ==
    IF self.state = new_state THEN FALSE ELSE TRUE

\* Mutant: from_state is read after the state is overwritten.
update_state_from_after(self, new_state, now) ==
    IF self.state = new_state THEN Err("InvalidStateTransition")
    ELSE Ok(Some([id |-> self.id, created_at |-> self.created_at,
                  description |-> self.description, state |-> new_state,
                  dirty |-> Some(TRUE)]),
            <<TodoStateChanged(self.id, new_state, new_state, now)>>)

\* Mutant: created_at is read from the clock again.
update_state_restamped(self, new_state, now) ==
    IF self.state = new_state THEN Err("InvalidStateTransition")
    ELSE Ok(Some([id |-> self.id, created_at |-> now,
                  description |-> self.description, state |-> new_state,
                  dirty |-> Some(TRUE)]),
            <<TodoStateChanged(self.id, self.state, new_state, now)>>)

\* Todo::update_state; the early return builds no Todo and no event.
update_state(self, new_state, now) ==
    IF ~is_new_state_allowed(self, new_state) THEN Err("InvalidStateTransition")
    ELSE Ok(Some([id |-> self.id, created_at |-> self.created_at,
                  description |-> self.description, state |-> new_state,
                  dirty |-> Some(TRUE)]),
            <<TodoStateChanged(self.id, self.state, new_state, now)>>)

\* Mutant: Done wraps around to Todo.
change_to_next_state_wraps(self, now) ==
    CASE self.state = "Todo" -> update_state(self, "InProgress", now)
      [] self.state = "InProgress" -> update_state(self, "Done", now)
      [] self.state = "Done" -> update_state(self, "Todo", now)

change_to_next_state(self, now) ==
    CASE self.state = "Todo" -> update_state(self, "InProgress", now)
      [] self.state = "InProgress" -> update_state(self, "Done", now)
      [] self.state = "Done" -> Err("InvalidStateTransition")

\* Mutant: Done falls back to Todo.
change_to_previous_state_resets(self, now) ==
    CASE self.state = "Done" -> update_state(self, "Todo", now)
      [] self.state = "InProgress" -> update_state(self, "Todo", now)
      [] self.state = "Todo" -> Err("InvalidStateTransition")

\* Mutant: Todo wraps around to Done.
change_to_previous_state_wraps(self, now) ==
    CASE self.state = "Done" -> update_state(self, "InProgress", now)
      [] self.state = "InProgress" -> update_state(self, "Todo", now)
      [] self.state = "Todo" -> update_state(self, "Done", now)

change_to_previous_state(self, now) ==
    CASE self.state = "Done" -> update_state(self, "InProgress", now)
      [] self.state = "InProgress" -> update_state(self, "Todo", now)
      [] self.state = "Todo" -> Err("InvalidStateTransition")

\* ----------------------------------------------- InMemoryTodoRepository
\* The struct literal save, find_by_id and find_all build: the four fields
\* id, created_at, description and state.
Snapshot(todo) ==
    [id |-> todo.id, created_at |-> todo.created_at,
     description |-> todo.description, state |-> todo.state]

\* Mutant: entry(id).or_insert(..), which keeps a snapshot already stored.
save_if_absent(m, todo) ==
    [k \in (DOMAIN m) \cup {todo.id} |->
        IF k \in DOMAIN m THEN m[k] ELSE Snapshot(todo)]

\* Mutant: the map is replaced by one holding the saved snapshot only.
save_alone(m, todo) == [k \in {todo.id} |-> Snapshot(todo)]

\* HashMap::insert(todo.id, todo_to_store) on the map m.
save(m, todo) ==
    [k \in (DOMAIN m) \cup {todo.id} |->
        IF k = todo.id THEN Snapshot(todo) ELSE m[k]]

find_by_id(m, id) ==
    IF id \in DOMAIN m THEN Some(Snapshot(m[id])) ELSE None

\* Mutant: values().take(1).
find_all_first(m) ==
    IF DOMAIN m = {} THEN {<<>>} ELSE {<<Snapshot(m[k])>> : k \in DOMAIN m}

\* find_all: one copy per stored entry, in the order HashMap::values
\* iterates, which is any order of the keys; the set of the vectors it may
\* return.
find_all(m) ==
    LET n == Cardinality(DOMAIN m)
        orders == {o \in [1..n -> DOMAIN m] :
                      \A i, j \in 1..n : o[i] = o[j] => i = j}
    IN {[i \in 1..n |-> Snapshot(m[o[i]])] : o \in orders}

\* Mutant: retain(|k, _| k > id).
delete_up_to(m, id) == [k \in {j \in DOMAIN m : j > id} |-> m[k]]

\* Mutant: HashMap::clear() when the id is not stored.
delete_or_clear(m, id) ==
    IF id \in DOMAIN m THEN [k \in (DOMAIN m) \ {id} |-> m[k]] ELSE <<>>

\* HashMap::remove(id).
delete(m, id) == [k \in (DOMAIN m) \ {id} |-> m[k]]

\* ---------------------------------------------------- SqlTodoRepository
\* The placeholder implementation: it has no store, and every operation
\* returns its constant.
\* Mutant: save reports an error.
sql_save_fails(todo) == Err("TodoNotFound")

sql_save(todo) == Ok(None, <<>>)

sql_find_by_id(id) == Ok(None, <<>>)

\* The todo field carries the returned vector, Vec::new().
sql_find_all == Ok(<<>>, <<>>)

sql_delete(id) == Ok(None, <<>>)

\* ------------------------------------------------------------- handlers
\* Mutant: the events are returned without the save.
new_todo_unsaved(m, description, id, now) ==
    LET r == Todo_new(description, id, now) IN
    IF r.kind # "Ok" THEN [ret |-> r, todos |-> m]
    ELSE [ret |-> Ok(None, r.events), todos |-> m]

\* Mutant: every aggregate is stored under the same key.
new_todo_one_key(m, description, id, now) ==
    LET r == Todo_new(description, id, now) IN
    IF r.kind # "Ok" THEN [ret |-> r, todos |-> m]
    ELSE [ret |-> Ok(None, r.events),
          todos |-> save(m, [r.todo[1] EXCEPT !.id = 1])]

\* AddTodoHandler::new_todo: the returned result and the map afterwards.
new_todo(m, description, id, now) ==
    LET r == Todo_new(description, id, now) IN
    IF r.kind # "Ok" THEN [ret |-> r, todos |-> m]
    ELSE [ret |-> Ok(None, r.events), todos |-> save(m, r.todo[1])]

\* Mutant: the requested state is written and saved before it is validated.
change_state_writes_first(m, id, new_state, now) ==
    LET found == find_by_id(m, id) IN
    IF found = None THEN [ret |-> Panic, todos |-> m]
    ELSE LET written == [found[1] EXCEPT !.state = new_state]
             r == update_state(written, new_state, now)
         IN IF r.kind # "Ok" THEN [ret |-> r, todos |-> save(m, written)]
            ELSE [ret |-> Ok(None, r.events), todos |-> save(m, r.todo[1])]

\* Mutant: ok_or(TodoError::TodoNotFound)? in place of unwrap().
change_state_ok_or(m, id, new_state, now) ==
    LET found == find_by_id(m, id) IN
    IF found = None THEN [ret |-> Err("TodoNotFound"), todos |-> m]
    ELSE LET r == update_state(found[1], new_state, now) IN
         IF r.kind # "Ok" THEN [ret |-> r, todos |-> m]
         ELSE [ret |-> Ok(None, r.events), todos |-> save(m, r.todo[1])]

\* Mutant: the events are returned without the save.
change_state_unsaved(m, id, new_state, now) ==
    LET found == find_by_id(m, id) IN
    IF found = None THEN [ret |-> Panic, todos |-> m]
    ELSE LET r == update_state(found[1], new_state, now) IN
         IF r.kind # "Ok" THEN [ret |-> r, todos |-> m]
         ELSE [ret |-> Ok(None, r.events), todos |-> m]

\* ChangeTodoStateHandler::change_state: find_by_id(..)?.unwrap(), then
\* update_state(..)?, then save(..)?, then Ok(events).
change_state(m, id, new_state, now) ==
    LET found == find_by_id(m, id) IN
    IF found = None THEN [ret |-> Panic, todos |-> m]
    ELSE LET r == update_state(found[1], new_state, now) IN
         IF r.kind # "Ok" THEN [ret |-> r, todos |-> m]
         ELSE [ret |-> Ok(None, r.events), todos |-> save(m, r.todo[1])]

\* ---------------------------------------------------------------- state
VARIABLES
    now,        \* the clock Utc::now reads
    generated,  \* the identifiers Uuid::new_v4 has returned (it returns no
                \* identifier twice)
    todos,      \* InMemoryTodoRepository.todos: id -> stored Todo
    saved,      \* the ids given to save and not given to delete since
    held,       \* the Todo a caller holds (Option)
    last,       \* the latest call: operation, receiver, arguments, result
    trail,      \* the new / advance / retreat calls made on held since any other call
    origin,     \* the state of held before the calls in trail
    prev,       \* the result of the call before the latest one in trail
    rwlock,     \* the RwLock around the map: the threads holding its write
                \* guard and the threads holding a read guard
    threads,    \* each thread's repository call in progress
    handlers    \* each thread's change_state call in progress

vars == <<now, generated, todos, saved, held, last, trail, origin, prev, rwlock, threads, handlers>>

Call(op, self, id, new_state, description, ret) ==
    [op |-> op, self |-> self, id |-> id, new_state |-> new_state,
     description |-> description, ret |-> ret]

NoCall == Call("-", None, 0, "-", <<>>, Ok(None, <<>>))

Threads == 1..NumThreads

\* A thread that is in no repository call.
Idle == [pc |-> "idle", op |-> "-", id |-> 0, todo |-> None,
         ret |-> Ok(None, <<>>)]

\* A thread that is in no handler call.
NoHandler == [pc |-> "idle", id |-> 0, new_state |-> "-", found |-> None,
              events |-> <<>>]

StateOf(h) == IF h = None THEN "Todo" ELSE h[1].state

Init ==
    /\ now = 0
    /\ generated = {}
    /\ todos = <<>>
    /\ saved = {}
    /\ held = None
    /\ last = NoCall
    /\ trail = <<>>
    /\ origin = StateOf(None)
    /\ prev = NoCall.ret
    /\ rwlock = [writer |-> {}, readers |-> {}]
    /\ threads = [t \in Threads |-> Idle]
    /\ handlers = [t \in Threads |-> NoHandler]

\* The state a run of new / advance / retreat calls leads to from state s.
RECURSIVE Replay(_, _)
Replay(s, ops) ==
    IF ops = <<>> THEN s
    ELSE LET n == CASE Head(ops) = "new" -> "Todo"
                    [] Head(ops) = "advance" ->
                        IF s = "Todo" THEN "InProgress" ELSE "Done"
                    [] Head(ops) = "retreat" ->
                        IF s = "Done" THEN "InProgress" ELSE "Todo"
         IN Replay(n, Tail(ops))

\* trail keeps the latest MaxTrail calls of the run; origin moves past a
\* call that is dropped.
Record(op) ==
    /\ IF Len(trail) < MaxTrail
       THEN /\ trail' = Append(trail, op)
            /\ origin' = origin
       ELSE /\ trail' = Append(Tail(trail), op)
            /\ origin' = Replay(origin, <<Head(trail)>>)
    /\ prev' = IF trail = <<>> THEN NoCall.ret ELSE last.ret

\* Any other call ends the run.
EndRun(h) ==
    /\ trail' = <<>>
    /\ origin' = StateOf(h)
    /\ prev' = NoCall.ret

\* ---------------------------------------------------------------- steps
\* The handlers, the tests and the bindings call the transitions on a Todo
\* they go on using: held is the returned aggregate after an Ok, and the
\* aggregate as it was after an Err (the early returns build nothing).
Tick ==
    /\ now < MaxTime
    /\ now' = now + 1
    /\ UNCHANGED <<handlers, rwlock, threads, generated, todos, saved, held, last, trail, origin, prev>>

\* let (todo, events) = Todo::new(description)?
New(description) ==
    \E id \in Ids :
        LET r == Todo_new(description, id, now) IN
        /\ r.kind = "Ok" => id \notin generated
        /\ generated' = IF r.kind = "Ok" THEN generated \cup {id} ELSE generated
        /\ last' = Call("new", None, 0, "-", description, r)
        /\ held' = IF r.kind = "Ok" THEN r.todo ELSE held
        /\ IF r.kind = "Ok"
           THEN trail' = <<"new">> /\ origin' = StateOf(None) /\ prev' = NoCall.ret
           ELSE EndRun(held)
        /\ UNCHANGED <<handlers, rwlock, threads, now, todos, saved>>

\* Mutant: the map holds the caller's Todo itself, so that a transition on
\* a Todo that was saved or looked up is a transition of the stored entry.
UpdateState_shared(new_state) ==
    /\ held # None
    /\ LET r == update_state(held[1], new_state, now) IN
       /\ last' = Call("update_state", held, held[1].id, new_state, <<>>, r)
       /\ held' = IF r.kind = "Ok" THEN r.todo ELSE held
       /\ todos' = IF r.kind = "Ok" /\ held[1].id \in DOMAIN todos
                   THEN save(todos, r.todo[1]) ELSE todos
    /\ EndRun(held')
    /\ UNCHANGED <<handlers, rwlock, threads, now, generated, saved>>

\* todo.update_state(new_state)
UpdateState(new_state) ==
    /\ held # None
    /\ LET r == update_state(held[1], new_state, now) IN
       /\ last' = Call("update_state", held, held[1].id, new_state, <<>>, r)
       /\ held' = IF r.kind = "Ok" THEN r.todo ELSE held
    /\ EndRun(held')
    /\ UNCHANGED <<handlers, rwlock, threads, now, generated, todos, saved>>

\* todo.change_to_next_state()
Advance ==
    /\ held # None
    /\ LET r == change_to_next_state(held[1], now) IN
       /\ last' = Call("advance", held, held[1].id, "-", <<>>, r)
       /\ held' = IF r.kind = "Ok" THEN r.todo ELSE held
    /\ Record("advance")
    /\ UNCHANGED <<handlers, rwlock, threads, now, generated, todos, saved>>

\* todo.change_to_previous_state()
Retreat ==
    /\ held # None
    /\ LET r == change_to_previous_state(held[1], now) IN
       /\ last' = Call("retreat", held, held[1].id, "-", <<>>, r)
       /\ held' = IF r.kind = "Ok" THEN r.todo ELSE held
    /\ Record("retreat")
    /\ UNCHANGED <<handlers, rwlock, threads, now, generated, todos, saved>>

\* repository.save(&todo)
Save ==
    /\ held # None
    /\ todos' = save(todos, held[1])
    /\ saved' = saved \cup {held[1].id}
    /\ last' = Call("save", held, held[1].id, "-", <<>>, Ok(None, <<>>))
    /\ EndRun(held)
    /\ UNCHANGED <<handlers, rwlock, threads, now, generated, held>>

\* let todo = repository.find_by_id(id)?
FindById(id) ==
    LET found == find_by_id(todos, id) IN
    /\ last' = Call("find_by_id", None, id, "-", <<>>, Ok(found, <<>>))
    /\ held' = IF found # None THEN found ELSE held
    /\ EndRun(held')
    /\ UNCHANGED <<handlers, rwlock, threads, now, generated, todos, saved>>

\* let all = repository.find_all()?, the caller going on with the first
\* Todo of the vector; ret.todo carries the whole vector.
FindAll ==
    \E all \in find_all(todos) :
        /\ last' = Call("find_all", None, 0, "-", <<>>, Ok(all, <<>>))
        /\ held' = IF all # <<>> THEN Some(Head(all)) ELSE held
        /\ EndRun(held')
        /\ UNCHANGED <<handlers, rwlock, threads, now, generated, todos, saved>>

\* repository.delete(id)
Delete(id) ==
    /\ todos' = delete(todos, id)
    /\ saved' = saved \ {id}
    /\ last' = Call("delete", None, id, "-", <<>>, Ok(None, <<>>))
    /\ EndRun(held)
    /\ UNCHANGED <<handlers, rwlock, threads, now, generated, held>>

\* handler.new_todo(description)
NewTodo(description) ==
    \E id \in Ids :
        LET h == new_todo(todos, description, id, now) IN
        /\ h.ret.kind = "Ok" => id \notin generated
        /\ generated' = IF h.ret.kind = "Ok" THEN generated \cup {id} ELSE generated
        /\ todos' = h.todos
        /\ saved' = IF h.ret.kind = "Ok" THEN saved \cup {id} ELSE saved
        /\ last' = Call("new_todo", None, 0, "-", description, h.ret)
        /\ EndRun(held)
        /\ UNCHANGED <<handlers, rwlock, threads, now, held>>

\* handler.change_state(id, new_state)
ChangeState(id, new_state) ==
    LET h == change_state(todos, id, new_state, now) IN
    /\ todos' = h.todos
    /\ saved' = IF h.ret.kind = "Ok" THEN saved \cup {id} ELSE saved
    /\ last' = Call("change_state", find_by_id(todos, id), id, new_state, <<>>, h.ret)
    /\ EndRun(held)
    /\ UNCHANGED <<handlers, rwlock, threads, now, generated, held>>

Next ==
    \/ Tick
    \/ \E d \in Descriptions : New(d)
    \/ \E s \in TodoState : UpdateState(s)
    \/ Advance
    \/ Retreat
    \/ Save
    \/ \E id \in Ids : FindById(id)
    \/ FindAll
    \/ \E id \in Ids : Delete(id)
    \/ \E d \in Descriptions : NewTodo(d)
    \/ \E id \in Ids, s \in TodoState : ChangeState(id, s)

Spec == Init /\ [][Next]_vars

\* todo.state.can_transition_to(new_state)
CanTransitionTo(new_state) ==
    /\ held # None
    /\ last' = Call("can_transition_to", held, held[1].id, new_state, <<>>,
                    Bool(can_transition_to(held[1].state, new_state)))
    /\ EndRun(held)
    /\ UNCHANGED <<handlers, rwlock, threads, now, generated, todos, saved, held>>

\* todo.state.can_advance()
CanAdvance ==
    /\ held # None
    /\ last' = Call("can_advance", held, held[1].id, "-", <<>>,
                    Bool(can_advance(held[1].state)))
    /\ EndRun(held)
    /\ UNCHANGED <<handlers, rwlock, threads, now, generated, todos, saved, held>>

\* todo.state.can_retreat()
CanRetreat ==
    /\ held # None
    /\ last' = Call("can_retreat", held, held[1].id, "-", <<>>,
                    Bool(can_retreat(held[1].state)))
    /\ EndRun(held)
    /\ UNCHANGED <<handlers, rwlock, threads, now, generated, todos, saved, held>>

\* The aggregate on its own: construction, the three transitions and the
\* queries on its state.
NextTodo ==
    \/ Tick
    \/ \E d \in Descriptions : New(d)
    \/ \E s \in TodoState : UpdateState(s)
    \/ Advance
    \/ Retreat
    \/ \E s \in TodoState : CanTransitionTo(s)
    \/ CanAdvance
    \/ CanRetreat

SpecTodo == Init /\ [][NextTodo]_vars

\* ------------------------------------------- calls on SqlTodoRepository
\* sql_repository.save(&todo)
SqlSave ==
    /\ held # None
    /\ last' = Call("sql_save", held, held[1].id, "-", <<>>, sql_save(held[1]))
    /\ saved' = saved \cup {held[1].id}
    /\ EndRun(held)
    /\ UNCHANGED <<handlers, rwlock, threads, now, generated, todos, held>>

\* sql_repository.find_by_id(id)
SqlFindById(id) ==
    /\ last' = Call("sql_find_by_id", None, id, "-", <<>>, sql_find_by_id(id))
    /\ EndRun(held)
    /\ UNCHANGED <<handlers, rwlock, threads, now, generated, todos, saved, held>>

\* sql_repository.find_all()
SqlFindAll ==
    /\ last' = Call("sql_find_all", None, 0, "-", <<>>, sql_find_all)
    /\ EndRun(held)
    /\ UNCHANGED <<handlers, rwlock, threads, now, generated, todos, saved, held>>

\* sql_repository.delete(id)
SqlDelete(id) ==
    /\ last' = Call("sql_delete", None, id, "-", <<>>, sql_delete(id))
    /\ saved' = saved \ {id}
    /\ EndRun(held)
    /\ UNCHANGED <<handlers, rwlock, threads, now, generated, todos, held>>

\* A caller that builds aggregates and works on a SqlTodoRepository.
NextSql ==
    \/ \E d \in Descriptions : New(d)
    \/ Advance
    \/ SqlSave
    \/ \E id \in Ids : SqlFindById(id)
    \/ SqlFindAll
    \/ \E id \in Ids : SqlDelete(id)

SpecSql == Init /\ [][NextSql]_vars

\* ---------------------------------------------------- concurrent callers
\* Threads sharing one InMemoryTodoRepository. A call takes the guard of
\* the RwLock (pc "acquire"), works on the map under it (pc "access") and
\* drops the guard when it returns (pc "release"). No call panics under a
\* guard, so the lock is never poisoned and the map_err branches are dead.
IsWrite(op) == op \in {"save", "delete"}

\* A Todo a caller can have built: Todo::new, then update_state when s is
\* not Todo.
BuiltTodo(id, s) ==
    LET fresh == Todo_new(<<"a">>, id, now).todo[1] IN
    IF s = "Todo" THEN fresh ELSE update_state(fresh, s, now).todo[1]

\* A thread enters save(&todo), find_by_id(id), find_all() or delete(id).
Enter(t) ==
    /\ threads[t].pc = "idle"
    /\ \E op \in {"save", "find_by_id", "find_all", "delete"},
          id \in Ids, s \in TodoState :
          threads' = [threads EXCEPT ![t] =
              [pc |-> "acquire", op |-> op,
               id |-> IF op = "find_all" THEN 0 ELSE id,
               todo |-> IF op = "save" THEN Some(BuiltTodo(id, s)) ELSE None,
               ret |-> Ok(None, <<>>)]]
    /\ UNCHANGED <<handlers, now, generated, todos, saved, held, last, trail, origin, prev, rwlock>>

\* Mutant: the write guard is granted while read guards are held.
AcquireWrite_among_readers(t) ==
    /\ threads[t].pc = "acquire"
    /\ IsWrite(threads[t].op)
    /\ rwlock.writer = {}
    /\ rwlock' = [rwlock EXCEPT !.writer = {t}]
    /\ threads' = [threads EXCEPT ![t].pc = "access"]
    /\ UNCHANGED <<handlers, now, generated, todos, saved, held, last, trail, origin, prev>>

\* self.todos.write(): granted when no guard is held.
AcquireWrite(t) ==
    /\ threads[t].pc = "acquire"
    /\ IsWrite(threads[t].op)
    /\ rwlock.writer = {}
    /\ rwlock.readers = {}
    /\ rwlock' = [rwlock EXCEPT !.writer = {t}]
    /\ threads' = [threads EXCEPT ![t].pc = "access"]
    /\ UNCHANGED <<handlers, now, generated, todos, saved, held, last, trail, origin, prev>>

\* self.todos.read(): granted when no write guard is held.
AcquireRead(t) ==
    /\ threads[t].pc = "acquire"
    /\ ~IsWrite(threads[t].op)
    /\ rwlock.writer = {}
    /\ rwlock' = [rwlock EXCEPT !.readers = @ \cup {t}]
    /\ threads' = [threads EXCEPT ![t].pc = "access"]
    /\ UNCHANGED <<handlers, now, generated, todos, saved, held, last, trail, origin, prev>>

\* Mutant: save returns without the insert.
SaveInsert_skipped(t) ==
    /\ threads[t].pc = "access"
    /\ threads[t].op = "save"
    /\ threads' = [threads EXCEPT ![t].pc = "release"]
    /\ UNCHANGED <<handlers, now, generated, todos, saved, held, last, trail, origin, prev, rwlock>>

\* todos.insert(todo.id.clone(), todo_to_store)
SaveInsert(t) ==
    /\ threads[t].pc = "access"
    /\ threads[t].op = "save"
    /\ todos' = save(todos, threads[t].todo[1])
    /\ saved' = saved \cup {threads[t].id}
    /\ threads' = [threads EXCEPT ![t].pc = "release"]
    /\ UNCHANGED <<handlers, now, generated, held, last, trail, origin, prev, rwlock>>

\* todos.get(id), copied
FindByIdGet(t) ==
    /\ threads[t].pc = "access"
    /\ threads[t].op = "find_by_id"
    /\ threads' = [threads EXCEPT ![t].pc = "release",
                                   ![t].ret = Ok(find_by_id(todos, threads[t].id), <<>>)]
    /\ UNCHANGED <<handlers, now, generated, todos, saved, held, last, trail, origin, prev, rwlock>>

\* todos.values().map(..).collect()
FindAllCollect(t) ==
    /\ threads[t].pc = "access"
    /\ threads[t].op = "find_all"
    /\ \E all \in find_all(todos) :
          threads' = [threads EXCEPT ![t].pc = "release",
                                     ![t].ret = Ok(all, <<>>)]
    /\ UNCHANGED <<handlers, now, generated, todos, saved, held, last, trail, origin, prev, rwlock>>

\* todos.remove(id)
DeleteRemove(t) ==
    /\ threads[t].pc = "access"
    /\ threads[t].op = "delete"
    /\ todos' = delete(todos, threads[t].id)
    /\ saved' = saved \ {threads[t].id}
    /\ threads' = [threads EXCEPT ![t].pc = "release"]
    /\ UNCHANGED <<handlers, now, generated, held, last, trail, origin, prev, rwlock>>

\* Mutant: the guard outlives the call.
Return_keeps_guard(t) ==
    /\ threads[t].pc = "release"
    /\ threads' = [threads EXCEPT ![t] = Idle]
    /\ UNCHANGED <<handlers, now, generated, todos, saved, held, last, trail, origin, prev, rwlock>>

\* The call returns and its guard is dropped.
Return(t) ==
    /\ threads[t].pc = "release"
    /\ rwlock' = [writer |-> rwlock.writer \ {t}, readers |-> rwlock.readers \ {t}]
    /\ threads' = [threads EXCEPT ![t] = Idle]
    /\ UNCHANGED <<handlers, now, generated, todos, saved, held, last, trail, origin, prev>>

NextThreads ==
    \E t \in Threads :
        \/ Enter(t)
        \/ AcquireWrite(t)
        \/ AcquireRead(t)
        \/ SaveInsert(t)
        \/ FindByIdGet(t)
        \/ FindAllCollect(t)
        \/ DeleteRemove(t)
        \/ Return(t)

SpecThreads == Init /\ [][NextThreads]_vars

\* A step of a call that has been entered.
Progress(t) ==
    \/ AcquireWrite(t)
    \/ AcquireRead(t)
    \/ SaveInsert(t)
    \/ FindByIdGet(t)
    \/ FindAllCollect(t)
    \/ DeleteRemove(t)
    \/ Return(t)

\* Fair scheduling: a thread that holds a guard goes on running, and a
\* thread waiting in write() or read() is granted the guard if the lock
\* is free for it again and again. No thread has to enter a call.
FairThreads ==
    /\ SpecThreads
    /\ \A t \in Threads :
          /\ WF_vars(SaveInsert(t))
          /\ WF_vars(FindByIdGet(t))
          /\ WF_vars(FindAllCollect(t))
          /\ WF_vars(DeleteRemove(t))
          /\ WF_vars(Return(t))
          /\ SF_vars(AcquireWrite(t))
          /\ SF_vars(AcquireRead(t))

\* ------------------------------------------------- concurrent handlers
\* Threads calling ChangeTodoStateHandler::change_state on one repository.
\* The call is find_by_id (pc "find"), unwrap and update_state, then save
\* (pc "save"); each repository call takes and drops its own guard.
AllIdle == \A t \in Threads : handlers[t].pc = "idle" /\ threads[t].pc = "idle"

\* handler.new_todo(description) while no other call is in progress.
Populate(description) ==
    /\ AllIdle
    /\ NewTodo(description)

\* let mut todo = self.todo_repository.find_by_id(&id) ..: the call begins.
ChangeStateEnter(t, id, new_state) ==
    /\ handlers[t].pc = "idle"
    /\ threads[t].pc = "idle"
    /\ handlers' = [handlers EXCEPT ![t] =
          [pc |-> "find", id |-> id, new_state |-> new_state, found |-> None,
           events |-> <<>>]]
    /\ threads' = [threads EXCEPT ![t] =
          [pc |-> "acquire", op |-> "find_by_id", id |-> id, todo |-> None,
           ret |-> Ok(None, <<>>)]]
    /\ UNCHANGED <<now, generated, todos, saved, held, last, trail, origin, prev, rwlock>>

\* find_by_id returns and drops its read guard; .unwrap() panics on None;
\* update_state(new_state)? returns its error; otherwise save(&todo) begins.
\* A call that ends here leaves the thread free.
ChangeStateUpdate(t) ==
    /\ handlers[t].pc = "find"
    /\ threads[t].pc = "release"
    /\ rwlock' = [writer |-> rwlock.writer \ {t}, readers |-> rwlock.readers \ {t}]
    /\ LET found == threads[t].ret.todo
           r == IF found = None THEN Panic
                ELSE update_state(found[1], handlers[t].new_state, now)
       IN IF r.kind # "Ok"
          THEN /\ handlers' = [handlers EXCEPT ![t] = NoHandler]
               /\ threads' = [threads EXCEPT ![t] = Idle]
          ELSE /\ handlers' = [handlers EXCEPT ![t].pc = "save",
                                               ![t].found = found,
                                               ![t].events = r.events]
               /\ threads' = [threads EXCEPT ![t] =
                     [pc |-> "acquire", op |-> "save", id |-> r.todo[1].id,
                      todo |-> r.todo, ret |-> Ok(None, <<>>)]]
    /\ UNCHANGED <<now, generated, todos, saved, held, last, trail, origin, prev>>

\* save returns and drops its write guard; Ok(events).
ChangeStateReturn(t) ==
    /\ handlers[t].pc = "save"
    /\ threads[t].pc = "release"
    /\ rwlock' = [writer |-> rwlock.writer \ {t}, readers |-> rwlock.readers \ {t}]
    /\ handlers' = [handlers EXCEPT ![t] = NoHandler]
    /\ threads' = [threads EXCEPT ![t] = Idle]
    /\ UNCHANGED <<now, generated, todos, saved, held, last, trail, origin, prev>>

NextHandlers ==
    \/ \E d \in Descriptions : Populate(d)
    \/ \E t \in Threads :
          \/ \E id \in Ids, s \in TodoState : ChangeStateEnter(t, id, s)
          \/ AcquireRead(t)
          \/ FindByIdGet(t)
          \/ ChangeStateUpdate(t)
          \/ AcquireWrite(t)
          \/ SaveInsert(t)
          \/ ChangeStateReturn(t)

SpecHandlers == Init /\ [][NextHandlers]_vars

\* =============================================================== claims
IsTransition(op) == op \in {"update_state", "advance", "retreat"}

Adjacent(a, b) ==
    <<a, b>> \in {<<"Todo", "InProgress">>, <<"InProgress", "Done">>,
                 <<"Done", "InProgress">>, <<"InProgress", "Todo">>}

Failed(ret, e) == ret.kind = "Err" /\ ret.err = e

\* C1: update_state(target) succeeds exactly when can_transition_to(current,
\* target) holds, and every successful update_state / advance / retreat moves
\* between adjacent states (Todo -> Done and Done -> Todo are refused).
C1_UpdateStateOnlyAdjacent ==
    /\ last.op = "update_state" =>
          (last.ret.kind = "Ok"
             <=> can_transition_to(last.self[1].state, last.new_state))
    /\ (IsTransition(last.op) /\ last.ret.kind = "Ok") =>
          Adjacent(last.self[1].state, held[1].state)

\* C2: update_state(S) on an aggregate whose state is S fails with
\* InvalidStateTransition and produces no event, for every state S.
C2_SameStateRefused ==
    (last.op = "update_state" /\ last.new_state = last.self[1].state) =>
        /\ Failed(last.ret, "InvalidStateTransition")
        /\ last.ret.events = <<>>
        /\ last.ret.todo = None

C2_Witness ==
    /\ last.op = "update_state"
    /\ last.self[1].state = "Done"
    /\ last.new_state = "Done"
    /\ last.ret.kind = "Err"

\* The target a transition call asks for.
Requested(call) ==
    CASE call.op = "update_state" -> call.new_state
      [] call.op = "advance" -> Replay(call.self[1].state, <<"advance">>)
      [] call.op = "retreat" -> Replay(call.self[1].state, <<"retreat">>)

\* C3: a successful update_state / advance / retreat produces exactly one
\* event, a TodoStateChanged carrying the aggregate's id, the state before
\* the call as from_state and the requested target as to_state; the
\* aggregate's state afterwards is to_state; no TodoCreated is produced.
C3_OneStateChangedEvent ==
    (IsTransition(last.op) /\ last.ret.kind = "Ok") =>
        /\ Len(last.ret.events) = 1
        /\ last.ret.events[1].type = "TodoStateChanged"
        /\ last.ret.events[1].id = last.self[1].id
        /\ last.ret.events[1].from_state = last.self[1].state
        /\ last.ret.events[1].to_state = Requested(last)
        /\ held = last.ret.todo
        /\ held[1].id = last.self[1].id
        /\ held[1].state = last.ret.events[1].to_state

C3_Witness ==
    /\ last.op = "retreat"
    /\ last.ret.kind = "Ok"
    /\ last.self[1].state = "Done"
    /\ held[1].state = "InProgress"

AllCalls(ops, op) == \A i \in 1..Len(ops) : ops[i] = op

\* C5: a freshly constructed aggregate is in state Todo; advance() moves it
\* to InProgress, a second advance() to Done, and every further advance()
\* fails with InvalidStateTransition and leaves it in Done.
C5_AdvanceChain ==
    (trail # <<>> /\ Head(trail) = "new" /\ AllCalls(Tail(trail), "advance")) =>
        LET n == Len(trail) - 1 IN
        /\ held[1].state = (CASE n = 0 -> "Todo"
                               [] n = 1 -> "InProgress"
                               [] OTHER -> "Done")
        /\ n \in {1, 2} => last.op = "advance" /\ last.ret.kind = "Ok"
        /\ n >= 3 => last.op = "advance" /\ Failed(last.ret, "InvalidStateTransition")

C5_Witness ==
    /\ trail = <<"new", "advance", "advance", "advance">>
    /\ held[1].state = "Done"
    /\ Failed(last.ret, "InvalidStateTransition")

\* C6: from an aggregate in state Done, retreat() moves it to InProgress, a
\* second retreat() to Todo, and every further retreat() fails with
\* InvalidStateTransition and leaves it in Todo.
C6_RetreatChain ==
    (held # None /\ origin = "Done" /\ AllCalls(trail, "retreat")) =>
        LET n == Len(trail) IN
        /\ held[1].state = (CASE n = 0 -> "Done"
                               [] n = 1 -> "InProgress"
                               [] OTHER -> "Todo")
        /\ n \in {1, 2} => last.op = "retreat" /\ last.ret.kind = "Ok"
        /\ n >= 3 => last.op = "retreat" /\ Failed(last.ret, "InvalidStateTransition")

C6_Witness ==
    /\ origin = "Done"
    /\ trail = <<"retreat", "retreat", "retreat">>
    /\ held[1].state = "Todo"
    /\ Failed(last.ret, "InvalidStateTransition")

\* C7: for a description that is non-empty after trimming, construction
\* succeeds with an aggregate in state Todo and exactly one TodoCreated event
\* whose id, description and created_at are those of the aggregate.
C7_ConstructionSucceeds ==
    (last.op = "new" /\ trim(last.description) # <<>>) =>
        /\ last.ret.kind = "Ok"
        /\ last.ret.todo # None
        /\ held = last.ret.todo
        /\ held[1].state = "Todo"
        /\ held[1].description = last.description
        /\ Len(last.ret.events) = 1
        /\ last.ret.events[1].type = "TodoCreated"
        /\ last.ret.events[1].id = held[1].id
        /\ last.ret.events[1].description = held[1].description
        /\ last.ret.events[1].created_at = held[1].created_at

C7_Witness ==
    /\ last.op = "new"
    /\ trim(last.description) # <<>>
    /\ last.ret.kind = "Ok"
    /\ held[1].created_at = MaxTime

\* C8: for a description that is empty or whitespace-only, construction
\* fails with EmptyDescription and returns no aggregate and no event; through
\* new_todo the repository map is left as it was.
C8_EmptyDescriptionRefused ==
    [][(last'.op \in {"new", "new_todo"} /\ trim(last'.description) = <<>>)
       => /\ Failed(last'.ret, "EmptyDescription")
          /\ last'.ret.todo = None
          /\ last'.ret.events = <<>>
          /\ held' = held
          /\ todos' = todos]_vars

C8_Witness ==
    /\ last.op = "new_todo"
    /\ last.description # <<>>
    /\ Failed(last.ret, "EmptyDescription")
    /\ DOMAIN todos # {}

\* C9: change_state for an identifier whose lookup yields nothing returns
\* the error TodoNotFound to the caller.
C9_NotFoundIsReported ==
    (last.op = "change_state" /\ last.self = None) =>
        Failed(last.ret, "TodoNotFound")

C11_SaveIsUpsert ==
    [][last'.op = "save"
       => LET t == last'.self[1] IN
          /\ DOMAIN todos' = (DOMAIN todos) \cup {t.id}
          /\ Cardinality(DOMAIN todos') =
                IF t.id \in DOMAIN todos THEN Cardinality(DOMAIN todos)
                ELSE Cardinality(DOMAIN todos) + 1
          /\ todos'[t.id] = Snapshot(t)
          /\ \A k \in (DOMAIN todos) \ {t.id} : todos'[k] = todos[k]]_vars

\* A save that replaced the stored entry of its id while another is stored.
C11_Witness ==
    /\ last.op = "save"
    /\ Cardinality(DOMAIN todos) = NumIds
    /\ todos[last.self[1].id].state = "Done"
    /\ origin = "Done"
    /\ \E k \in DOMAIN todos : todos[k].state = "Todo"

C13_DeleteIdempotent ==
    /\ \A id \in Ids \ DOMAIN todos : delete(todos, id) = todos
    /\ \A id \in Ids :
          /\ find_by_id(delete(todos, id), id) = None
          /\ delete(delete(todos, id), id) = delete(todos, id)
    /\ last.op = "delete" =>
          /\ last.ret = Ok(None, <<>>)
          /\ find_by_id(todos, last.id) = None
          /\ delete(todos, last.id) = todos

\* A delete of an id that was never generated, with another entry stored.
C13_Witness ==
    /\ last.op = "delete"
    /\ last.id \notin generated
    /\ last.ret.kind = "Ok"
    /\ DOMAIN todos # {}

\* C14: find_all returns one item per id that was saved and not deleted
\* since, and nothing else: after saving N aggregates of pairwise distinct
\* ids into the empty repository, with no delete, a vector of N items whose
\* ids are the N saved ids.
C14_FindAllOnePerSavedId ==
    /\ \A all \in find_all(todos) :
          /\ Len(all) = Cardinality(saved)
          /\ {all[i].id : i \in 1..Len(all)} = saved
    /\ last.op = "find_all" =>
          /\ last.ret.kind = "Ok"
          /\ last.ret.todo \in find_all(todos)

C14_Witness ==
    /\ last.op = "find_all"
    /\ Cardinality(saved) = NumIds
    /\ Len(last.ret.todo) = NumIds
    /\ last.ret.todo[1].id > last.ret.todo[NumIds].id

\* A thread that holds a guard of the lock and works on the map.
Accessing(t) == threads[t].pc \in {"access", "release"}

\* C15: under every interleaving of concurrent save, find_by_id, find_all
\* and delete calls, a thread inside save or delete is the only thread
\* working on the map; threads inside find_by_id and find_all may work on it
\* at the same time.
C15_WriterExcludesAll ==
    \A t, u \in Threads :
        (t # u /\ Accessing(t) /\ Accessing(u)) =>
            (~IsWrite(threads[t].op) /\ ~IsWrite(threads[u].op))

\* Two readers on the map at the same time, while it holds an entry.
C15_Witness ==
    /\ \E t, u \in Threads :
          /\ t # u
          /\ threads[t].pc = "release" /\ threads[t].op = "find_by_id"
          /\ threads[t].ret.todo # None
          /\ threads[u].pc = "access" /\ threads[u].op = "find_all"
    /\ Cardinality(rwlock.readers) = 2

\* C16 as stated: a successful transition changes no field of the aggregate
\* other than state.
C16_OnlyStateChanges ==
    (IsTransition(last.op) /\ last.ret.kind = "Ok") =>
        [held[1] EXCEPT !.state = last.self[1].state] = last.self[1]

\* C16, amended: a successful transition keeps id, created_at and
\* description, sets state to the target and sets dirty to Some(true); it
\* changes no other field.
C16_TransitionKeepsIdentity ==
    (IsTransition(last.op) /\ last.ret.kind = "Ok") =>
        /\ held[1].id = last.self[1].id
        /\ held[1].created_at = last.self[1].created_at
        /\ held[1].description = last.self[1].description
        /\ held[1] = [last.self[1] EXCEPT !.state = Requested(last),
                                          !.dirty = Some(TRUE)]

\* A transition later than the construction, of an aggregate that had
\* made a transition before.
C16_Witness ==
    /\ last.op = "retreat"
    /\ last.ret.kind = "Ok"
    /\ last.self[1].dirty = Some(TRUE)
    /\ held[1].created_at < now
    /\ held[1].state = "Todo"

\* C17: can_transition_to(from, to) is true for exactly the four adjacent
\* pairs Todo -> InProgress, InProgress -> Done, Done -> InProgress and
\* InProgress -> Todo; it is false for the three same-state pairs and for
\* Todo -> Done and Done -> Todo.
C17_CanTransitionToAdjacent ==
    last.op = "can_transition_to" =>
        LET from == last.self[1].state
            to == last.new_state
        IN /\ last.ret.value <=> Adjacent(from, to)
           /\ from = to => ~last.ret.value
           /\ <<from, to>> \in {<<"Todo", "Done">>, <<"Done", "Todo">>}
                 => ~last.ret.value

C17_Witness ==
    /\ last.op = "can_transition_to"
    /\ last.self[1].state = "Done"
    /\ last.new_state = "Todo"
    /\ last.ret = Bool(FALSE)

\* C18: can_advance() is true for Todo and InProgress and false for Done,
\* can_retreat() is true for InProgress and Done and false for Todo;
\* advance() succeeds exactly when can_advance() holds of the state and
\* retreat() exactly when can_retreat() holds.
C18_AdvanceRetreatGuards ==
    /\ last.op = "can_advance" =>
          (last.ret.value <=> last.self[1].state \in {"Todo", "InProgress"})
    /\ last.op = "can_retreat" =>
          (last.ret.value <=> last.self[1].state \in {"InProgress", "Done"})
    /\ last.op = "advance" =>
          (last.ret.kind = "Ok" <=> can_advance(last.self[1].state))
    /\ last.op = "retreat" =>
          (last.ret.kind = "Ok" <=> can_retreat(last.self[1].state))

C18_Witness ==
    /\ last.op = "can_advance"
    /\ last.self[1].state = "Done"
    /\ last.ret = Bool(FALSE)

C22_NotFoundPanics ==
    (last.op = "change_state" /\ last.self = None) =>
        /\ last.ret = Panic
        /\ last.ret.kind \notin {"Ok", "Err"}
        /\ last.ret.events = <<>>
        /\ last.id \notin DOMAIN todos
        /\ last.id \notin saved

C22_Witness ==
    /\ last.op = "change_state"
    /\ last.self = None
    /\ last.ret.kind = "Panic"
    /\ last.id \in generated
    /\ DOMAIN todos # {}

\* A change_state call whose save holds the write guard and is about to
\* insert, and one whose save has inserted and still holds the guard.
AboutToSave(t) == handlers[t].pc = "save" /\ threads[t].pc = "access"
HasSaved(t) == handlers[t].pc = "save" /\ threads[t].pc = "release"

\* C23 as stated: under every interleaving of concurrent change_state calls,
\* the from_state of each successful event is the state stored for its id
\* immediately before its save, so no update is lost.
C23_EventsFormChain ==
    \A t \in Threads :
        AboutToSave(t) =>
            /\ handlers[t].id \in DOMAIN todos
            /\ handlers[t].events[1].from_state = todos[handlers[t].id].state

\* C23, amended: the from_state of each successful event is the state the
\* call's own find_by_id returned, and its to_state the requested one;
\* immediately after each save the stored state of the id is the to_state
\* of the saved event.
C23_EventFromOwnRead ==
    \A t \in Threads :
        /\ handlers[t].pc = "save" =>
              /\ handlers[t].found # None
              /\ Len(handlers[t].events) = 1
              /\ handlers[t].events[1].id = handlers[t].id
              /\ handlers[t].events[1].from_state = handlers[t].found[1].state
              /\ handlers[t].events[1].to_state = handlers[t].new_state
        /\ HasSaved(t) =>
              /\ handlers[t].id \in DOMAIN todos
              /\ todos[handlers[t].id].state = handlers[t].events[1].to_state

\* One call has saved; the other, on the same id, read the state stored
\* before that save and waits for the write guard.
C23_Witness ==
    \E t, u \in Threads :
        /\ HasSaved(t)
        /\ handlers[u].pc = "save" /\ threads[u].pc = "acquire"
        /\ handlers[u].id = handlers[t].id
        /\ handlers[u].events[1].from_state = handlers[t].events[1].from_state
        /\ handlers[u].events[1].from_state # todos[handlers[u].id].state

MapStep(t) == threads[t].pc = "access" /\ threads'[t].pc = "release"

\* C25: a repository operation touches only the id it names: save(t) and
\* delete(id) leave every other id stored or absent as it was, with the
\* same snapshot; find_by_id and find_all leave the whole map as it was.
C25_OnlyTheNamedId ==
    [][\A t \in Threads :
         MapStep(t) =>
            IF IsWrite(threads[t].op)
            THEN \A k \in Ids \ {threads[t].id} :
                    /\ k \in DOMAIN todos' <=> k \in DOMAIN todos
                    /\ k \in DOMAIN todos => todos'[k] = todos[k]
            ELSE todos' = todos]_vars

\* A delete has removed its id and another id is still stored.
C25_Witness ==
    \E t \in Threads :
        /\ threads[t].pc = "release"
        /\ threads[t].op = "delete"
        /\ threads[t].id = 1
        /\ threads[t].id \notin DOMAIN todos
        /\ \E k \in DOMAIN todos : todos[k].state = "Done"

\* The run ends with the calls first, second, made from state s0.
EndsWith(first, second) ==
    /\ Len(trail) >= 2
    /\ trail[Len(trail) - 1] = first
    /\ trail[Len(trail)] = second

Start == Replay(origin, SubSeq(trail, 1, Len(trail) - 2))

\* Both calls succeeded, each with one TodoStateChanged, the second the
\* reverse of the first, and the aggregate is back in state s0.
BackAt(s0) ==
    /\ prev.kind = "Ok" /\ last.ret.kind = "Ok"
    /\ Len(prev.events) = 1 /\ Len(last.ret.events) = 1
    /\ prev.events[1].type = "TodoStateChanged"
    /\ last.ret.events[1].type = "TodoStateChanged"
    /\ prev.events[1].from_state = s0
    /\ prev.events[1].to_state # s0
    /\ last.ret.events[1].from_state = prev.events[1].to_state
    /\ last.ret.events[1].to_state = prev.events[1].from_state
    /\ held[1].state = s0

\* C26: advance() then retreat() brings an aggregate that was in Todo or
\* InProgress back to that state, and retreat() then advance() one that was
\* in InProgress or Done; both calls succeed and each emits one
\* TodoStateChanged whose from and to are the reverse of the other's.
C26_AdvanceRetreatInverse ==
    /\ (EndsWith("advance", "retreat") /\ Start \in {"Todo", "InProgress"})
          => BackAt(Start)
    /\ (EndsWith("retreat", "advance") /\ Start \in {"InProgress", "Done"})
          => BackAt(Start)

C26_Witness ==
    /\ EndsWith("retreat", "advance")
    /\ Start = "Done"
    /\ held[1].state = "Done"
    /\ last.ret.events[1].from_state = "InProgress"
    /\ prev.events[1].from_state = "Done"

\* C27: the placeholder SQL repository always succeeds and stores nothing:
\* save and delete return Ok, find_by_id returns Ok(None) and find_all an
\* empty vector, whatever was saved before, the queried id included.
C27_SqlStubStoresNothing ==
    /\ last.op \in {"sql_save", "sql_delete"} => last.ret = Ok(None, <<>>)
    /\ last.op = "sql_find_by_id" =>
          /\ last.ret.kind = "Ok"
          /\ last.ret.todo = None
    /\ last.op = "sql_find_all" =>
          /\ last.ret.kind = "Ok"
          /\ last.ret.todo = <<>>
    /\ \A id \in saved : sql_find_by_id(id).todo = None
    /\ todos = <<>>

\* A lookup of an id that was saved and not deleted.
C27_Witness ==
    /\ last.op = "sql_find_by_id"
    /\ last.id \in saved
    /\ Cardinality(saved) = 2
    /\ last.ret.todo = None

\* C28: dirty is Some(false) right after construction and Some(true) after
\* every successful update_state / advance / retreat; a failed transition
\* leaves the aggregate, dirty included, as it was, so no operation of the
\* aggregate takes dirty from Some(true) back to Some(false).
C28_DirtyFlag ==
    /\ (last.op = "new" /\ last.ret.kind = "Ok") =>
          held[1].dirty = Some(FALSE)
    /\ (IsTransition(last.op) /\ last.ret.kind = "Ok") =>
          held[1].dirty = Some(TRUE)
    /\ (IsTransition(last.op) /\ last.ret.kind = "Err") =>
          /\ held = last.self
          /\ held[1].dirty = last.self[1].dirty
    /\ (last.op \notin {"-", "new"} /\ last.self[1].dirty = Some(TRUE)) =>
          held[1].dirty = Some(TRUE)
    /\ held # None => held[1].dirty \in {Some(FALSE), Some(TRUE)}

\* A failed transition of an aggregate that is not dirty.
C28_Witness ==
    /\ last.op = "retreat"
    /\ last.ret.kind = "Err"
    /\ last.self[1].dirty = Some(FALSE)
    /\ held[1].dirty = Some(FALSE)

====
